---- MODULE Spec2Model ----
(***************************************************************************)
(* A model of the CHIP-8 virtual CPU of ejholmes/chip8: the CPU struct,    *)
(* NewCPU, LoadBytes, Step and Dispatch (the revision of src/cpu.go that   *)
(* starts at line 648) and the Graphics buffer of src/graphics.go.         *)
(*                                                                         *)
(* These specifications drive it: Spec (one Dispatch call, as              *)
(* TestOpcodes), SpecCalls (nested CALL and RET), SpecDraw (the Graphics   *)
(* methods), SpecGfx (Dispatch of Dxyn), SpecFx (Dispatch of the keypad    *)
(* and Fx instructions), SpecSeq (sequences of Dispatch calls), SpecRand   *)
(* (Dispatch of Cxkk with the default random source), SpecRun              *)
(* (LoadBytes, then Run, with Stop from the signal goroutine), SpecRunFair *)
(* (SpecRun with a fair scheduler) and SpecNew (SpecRun for every clock    *)
(* speed given to NewCPU).  CPU.Run and CPU.Stop have callers under src/   *)
(* but no definition; the loop and its stop flag follow the description    *)
(* of the execution loop in spec.md.                                       *)
(*                                                                         *)
(* Go's fixed-width integers are modelled with explicit reductions         *)
(* (% 256 for byte, % 65536 for uint16).  An out-of-range array index,     *)
(* which makes the Go runtime panic, is modelled by the result "panic":    *)
(* the statement that panics has no effect and execution stops.            *)
(*                                                                         *)
(* The arrays (Memory, V, Stack, Pixels) are zero-initialised; each is     *)
(* held as the finite map of its non-zero elements, an index outside the   *)
(* map's domain holding 0.  At reads and Put writes an element, and the    *)
(* array bounds are checked where the code can index outside them.         *)
(***************************************************************************)
EXTENDS Integers, Sequences, FiniteSets, TLC

\* ------------------------------------------------------------------------
\* Program constants
\* ------------------------------------------------------------------------

\* len(CPU.Memory)
MemorySize == 4096

\* DefaultClockSpeed, in Hz
DefaultClockSpeed == 60

\* len(CPU.Stack)
StackSize == 16

\* len(CPU.V)
NumRegs == 16

\* Address the program counter starts at and programs are loaded to (0x200).
ProgramStart == 512

GraphicsWidth == 64

GraphicsHeight == 32

\* len(Graphics.Pixels)
NumPixels == GraphicsWidth * GraphicsHeight

\* ------------------------------------------------------------------------
\* Fixed-width arithmetic
\* ------------------------------------------------------------------------

\* Conversion to Go's byte (uint8).
Byte(n) == n % 256

\* Conversion to Go's uint16.
Word(n) == n % 65536

RECURSIVE And(_, _)
\* Go's a & b on non-negative integers.
And(a, b) ==
    IF a = 0 \/ b = 0 THEN 0
    ELSE (a % 2) * (b % 2) + 2 * And(a \div 2, b \div 2)

RECURSIVE Or(_, _)
\* Go's a | b on non-negative integers.
Or(a, b) ==
    IF a = 0 THEN b
    ELSE IF b = 0 THEN a
    ELSE (IF a % 2 = 1 \/ b % 2 = 1 THEN 1 ELSE 0) + 2 * Or(a \div 2, b \div 2)

RECURSIVE Xor(_, _)
\* Go's a ^ b on non-negative integers.
Xor(a, b) ==
    IF a = 0 THEN b
    ELSE IF b = 0 THEN a
    ELSE ((a + b) % 2) + 2 * Xor(a \div 2, b \div 2)

\* ------------------------------------------------------------------------
\* Zero-initialised arrays (Memory [4096]byte, V [16]byte, Stack [16]uint16,
\* Pixels [2048]byte)
\* ------------------------------------------------------------------------

\* The array whose elements are all zero.
Zeroes == [a \in {} |-> 0]

\* arr[a]
At(arr, a) == IF a \in DOMAIN arr THEN arr[a] ELSE 0

\* arr[a] = v
Put(arr, a, v) ==
    LET dom == IF v = 0 THEN DOMAIN arr \ {a} ELSE DOMAIN arr \cup {a}
    IN  [x \in dom |-> IF x = a THEN v ELSE arr[x]]

\* ------------------------------------------------------------------------
\* Opcode fields (the comment at the head of Dispatch)
\* ------------------------------------------------------------------------

\* op & 0xF000, as the family number 0..15
Family(o) == (o \div 4096) % 16

\* (op & 0x0F00) >> 8
FieldX(o) == (o \div 256) % 16

\* (op & 0x00F0) >> 4
FieldY(o) == (o \div 16) % 16

\* op & 0x000F
FieldN(o) == o % 16

\* byte(op)
FieldKK(o) == o % 256

\* op & 0x0FFF
FieldNNN(o) == o % 4096

\* ------------------------------------------------------------------------
\* The font table.  FontSet is loaded by CPU.init but its definition is not
\* part of the available sources; it is the standard CHIP-8 hexadecimal
\* font, 16 glyphs of 5 bytes.
\* ------------------------------------------------------------------------
FontSet ==
    << 240, 144, 144, 144, 240,    32,  96,  32,  32, 112,
       240,  16, 240, 128, 240,   240,  16, 240,  16, 240,
       144, 144, 240,  16,  16,   240, 128, 240,  16, 240,
       240, 128, 240, 144, 240,   240,  16,  32,  64,  64,
       240, 144, 240, 144, 240,   240, 144, 240,  16, 240,
       240, 144, 240, 144, 144,   224, 144, 224, 144, 224,
       240, 128, 128, 128, 240,   224, 144, 144, 144, 224,
       240, 128, 240, 128, 240,   240, 128, 240, 128, 128 >>

\* ------------------------------------------------------------------------
\* State
\* ------------------------------------------------------------------------
VARIABLES
    Memory,     \* CPU.Memory  [4096]byte
    I,          \* CPU.I       uint16
    PC,         \* CPU.PC      uint16
    V,          \* CPU.V       [16]byte
    Stack,      \* CPU.Stack   [16]uint16
    SP,         \* CPU.SP      byte
    Pixels,     \* CPU.Graphics.Pixels [64*32]byte
    pos,        \* position of the caller driving the CPU
    op,         \* the opcode of the last Dispatch call, -1 before the first
    err,        \* the result of the last call: "nil", "UnknownOpcode", "panic"
    errOpcode,  \* UnknownOpcode.Opcode of the last returned error, else -1
    pre,        \* history: the CPU as it was when the last call started
    calls,      \* history: the PC recorded by each CALL not yet returned from
    expect,     \* history: the PC recorded by the CALL the last RET matches
    sprite,     \* the arguments of the last WriteSprite call ...
    sx,
    sy,
    collision,  \* ... and the value it returned
    display,    \* Graphics.Display: what its Render returns, "nil" or an error
    rendered,   \* history: the Pixels array of each Render call, in order
    program,    \* the argument p of the last LoadBytes call
    count,      \* the count the last LoadBytes call returned, -1 before it
    fetched,    \* the value the last c.op() call returned, -1 before it
    steps,      \* history: the number of Step calls made by Run
    runErr,     \* what Run returned: "none" while it has not returned
    key,        \* the keypad: the key its Get returns ...
    keyErr,     \* ... and the error: "nil", "ErrQuit" or "KeypadError"
    stopping,   \* Stop has been called
    stopAt,     \* history: the value of steps when Stop was called, else -1
    clockSpeed, \* Options.ClockSpeed given to NewCPU, in Hz
    clock,      \* CPU.Clock: "ticking", or "nil" for the nil channel
    rand,       \* history: the byte randByte returned in the last call, else -1
    seqLen      \* history: the number of Dispatch calls of a sequence

cpuVars == <<Memory, I, PC, V, Stack, SP, Pixels>>

callVars == <<calls, expect>>

drawVars == <<sprite, sx, sy, collision>>

displayVars == <<display, rendered>>

loadVars == <<program, count>>

runVars == <<fetched, steps, runErr>>

keyVars == <<key, keyErr>>

stopVars == <<stopping, stopAt>>

clockVars == <<clockSpeed, clock>>

vars ==
    <<Memory, I, PC, V, Stack, SP, Pixels, pos, op, err, errOpcode, pre,
      calls, expect, sprite, sx, sy, collision, display, rendered,
      program, count, fetched, steps, runErr, key, keyErr, stopping,
      stopAt, clockSpeed, clock, rand, seqLen>>

\* The CPU struct as one value.
CPU ==
    [Memory |-> Memory, I |-> I, PC |-> PC, V |-> V,
     Stack |-> Stack, SP |-> SP, Pixels |-> Pixels]

\* Mutant of load: the count is not limited to the space left in memory.
loadUnlimited(mem, offset, p) ==
    IF Len(p) = 0 THEN [Memory |-> mem, n |-> 0, err |-> "EOF"]
    ELSE LET n == Len(p)
             val(a) == IF a >= offset /\ a < offset + n /\ a < MemorySize
                       THEN p[a - offset + 1] ELSE At(mem, a)
             dom == {a \in DOMAIN mem \cup offset..(MemorySize - 1) : val(a) # 0}
         IN  [Memory |-> [a \in dom |-> val(a)], n |-> n, err |-> "nil"]

\* CPU.load(offset, r) with r a bytes.Reader over p:
\* r.Read(c.Memory[offset:]).  Read on a reader with nothing left to read
\* returns 0 and io.EOF; otherwise it copies as many bytes as the
\* destination holds, n = min(len(p), len(Memory) - offset), and returns n
\* and nil.
load(mem, offset, p) ==
    IF Len(p) = 0 THEN [Memory |-> mem, n |-> 0, err |-> "EOF"]
    ELSE LET n == IF Len(p) < MemorySize - offset THEN Len(p)
                  ELSE MemorySize - offset
             val(a) == IF a >= offset /\ a < offset + n
                       THEN p[a - offset + 1] ELSE At(mem, a)
             dom == {a \in DOMAIN mem \cup offset..(offset + n - 1) : val(a) # 0}
         IN  [Memory |-> [a \in dom |-> val(a)], n |-> n, err |-> "nil"]

\* CPU.Load(r): c.load(0x200, r)
Load(mem, p) == load(mem, ProgramStart, p)

\* CPU.LoadBytes(p): c.Load(bytes.NewReader(p))
LoadBytes(mem, p) == Load(mem, p)

\* CPU.init(): c.load(0, bytes.NewReader(FontSet)) copies the table to
\* address 0; the load of the non-empty table returns no error.
LoadFont(mem) == load(mem, 0, FontSet).Memory

\* Mutant of NewCPU: PC starts at 200 decimal and the font is not loaded.
NewCPUDecimal ==
    [Memory |-> Zeroes,
     I      |-> 0,
     PC     |-> 200,
     V      |-> Zeroes,
     Stack  |-> Zeroes,
     SP     |-> 0,
     Pixels |-> Zeroes]

\* NewCPU: the zero value of the struct, PC = 0x200, then init().
NewCPU ==
    [Memory |-> LoadFont(Zeroes),
     I      |-> 0,
     PC     |-> ProgramStart,
     V      |-> Zeroes,
     Stack  |-> Zeroes,
     SP     |-> 0,
     Pixels |-> Zeroes]

\* time.Second, in nanoseconds
Second == 1000000000

\* Go's integer division, which truncates toward zero (b is not 0)
Quo(a, b) ==
    LET abs(n) == IF n < 0 THEN -n ELSE n
        q      == abs(a) \div abs(b)
    IN  IF (a < 0) = (b < 0) THEN q ELSE -q

\* Clock: time.Tick(time.Second / options.ClockSpeed).  The division panics
\* for a speed of 0, and time.Tick returns a nil channel for a period that
\* is not positive.
NewClock(speed) ==
    IF speed = 0 THEN "panic"
    ELSE IF Quo(Second, speed) <= 0 THEN "nil"
    ELSE "ticking"

\* rand.Intn(n): the values it can return, the integers of [0, n)
Intn(n) == 0..(n - 1)

\* randByte(), the default random source: the bytes byte(rand.Intn(255))
\* can be.
randByte == {Byte(v) : v \in Intn(255)}

\* ------------------------------------------------------------------------
\* Results of Dispatch
\* ------------------------------------------------------------------------

\* return nil
Ok(c) == [c |-> c, err |-> "nil", opcode |-> -1]

\* return &UnknownOpcode{Opcode: op}
UnknownOpcode(c, o) == [c |-> c, err |-> "UnknownOpcode", opcode |-> o]

\* a run-time panic (index out of range); c is the state reached before it
Panic(c) == [c |-> c, err |-> "panic", opcode |-> -1]

\* ------------------------------------------------------------------------
\* CPU.Dispatch, one operator per instruction.  c is the CPU before the
\* instruction, o the opcode; the value is the result of Dispatch.
\* ------------------------------------------------------------------------

\* 00E0 - CLS: the case holds only a TODO and a break.
OpCLS(c) == Ok(c)

\* 00EE - RET: c.PC = c.Stack[c.SP]; c.SP--
OpRET(c) ==
    IF c.SP >= StackSize THEN Panic(c)
    ELSE Ok([c EXCEPT !.PC = At(c.Stack, c.SP), !.SP = Byte(c.SP + 255)])

\* 1nnn - JP addr: c.PC = op & 0x0FFF
OpJP(c, o) == Ok([c EXCEPT !.PC = FieldNNN(o)])

\* Mutant of OpCALL: the stack pointer is incremented before the push.
OpCALLIncFirst(c, o) ==
    IF Byte(c.SP + 1) >= StackSize THEN Panic(c)
    ELSE Ok([c EXCEPT !.Stack = Put(c.Stack, Byte(c.SP + 1), c.PC),
                      !.SP = Byte(c.SP + 1),
                      !.PC = FieldNNN(o)])

\* 2nnn - CALL addr: c.Stack[c.SP] = c.PC; c.SP++; c.PC = op & 0x0FFF
OpCALL(c, o) ==
    IF c.SP >= StackSize THEN Panic(c)
    ELSE Ok([c EXCEPT !.Stack = Put(c.Stack, c.SP, c.PC),
                      !.SP = Byte(c.SP + 1),
                      !.PC = FieldNNN(o)])

\* 3xkk - SE Vx, byte: if c.V[x] == kk { c.PC += 2 }
OpSE(c, o) ==
    IF At(c.V, FieldX(o)) = FieldKK(o)
    THEN Ok([c EXCEPT !.PC = Word(c.PC + 2)])
    ELSE Ok(c)

\* 4xkk - SNE Vx, byte: if c.V[x] != kk { c.PC += 2 }
OpSNE(c, o) ==
    IF At(c.V, FieldX(o)) # FieldKK(o)
    THEN Ok([c EXCEPT !.PC = Word(c.PC + 2)])
    ELSE Ok(c)

\* 5xy0 - SE Vx, Vy: if c.V[x] == c.V[y] { c.PC += 2 }; 5xyN otherwise unknown
OpSEReg(c, o) ==
    IF FieldN(o) # 0 THEN UnknownOpcode(c, o)
    ELSE IF At(c.V, FieldX(o)) = At(c.V, FieldY(o))
    THEN Ok([c EXCEPT !.PC = Word(c.PC + 2)])
    ELSE Ok(c)

\* 6xkk - LD Vx, byte: c.V[x] = kk
OpLD(c, o) == Ok([c EXCEPT !.V = Put(c.V, FieldX(o), FieldKK(o))])

\* Mutant of OpADD: the carry of the sum is stored in VF.
OpADDCarry(c, o) ==
    LET sum == At(c.V, FieldX(o)) + FieldKK(o)
    IN  Ok([c EXCEPT !.V = Put(Put(c.V, FieldX(o), Byte(sum)), 15,
                                   IF sum > 255 THEN 1 ELSE 0)])

\* 7xkk - ADD Vx, byte: c.V[x] = c.V[x] + kk
OpADD(c, o) ==
    Ok([c EXCEPT !.V = Put(c.V, FieldX(o), Byte(At(c.V, FieldX(o)) + FieldKK(o)))])

\* 8xy0 - LD Vx, Vy: c.V[x] = c.V[y]
Op8xy0(c, x, y) == Ok([c EXCEPT !.V = Put(c.V, x, At(c.V, y))])

\* 8xy1 - OR Vx, Vy: c.V[x] = c.V[y] | c.V[x]
Op8xy1(c, x, y) == Ok([c EXCEPT !.V = Put(c.V, x, Or(At(c.V, y), At(c.V, x)))])

\* 8xy2 - AND Vx, Vy: c.V[x] = c.V[y] & c.V[x]
Op8xy2(c, x, y) == Ok([c EXCEPT !.V = Put(c.V, x, And(At(c.V, y), At(c.V, x)))])

\* 8xy3 - XOR Vx, Vy: c.V[x] = c.V[y] ^ c.V[x]
Op8xy3(c, x, y) == Ok([c EXCEPT !.V = Put(c.V, x, Xor(At(c.V, y), At(c.V, x)))])

\* Mutant of Op8xy4: the sum is computed in a byte, so it never exceeds 0xFF.
Op8xy4Byte(c, x, y) ==
    LET r  == Byte(At(c.V, x) + At(c.V, y))
        cf == IF r > 255 THEN 1 ELSE 0
        v1 == Put(c.V, 15, cf)
    IN  Ok([c EXCEPT !.V = Put(v1, x, r)])

\* 8xy4 - ADD Vx, Vy: r := uint16(Vx) + uint16(Vy); VF = (r > 0xFF);
\* then Vx = byte(r).  Both operands are read before either write.
Op8xy4(c, x, y) ==
    LET r  == Word(At(c.V, x) + At(c.V, y))
        cf == IF r > 255 THEN 1 ELSE 0
        v1 == Put(c.V, 15, cf)
    IN  Ok([c EXCEPT !.V = Put(v1, x, Byte(r))])

\* 8xy5 - SUB Vx, Vy: VF = (Vx > Vy), then c.V[x] = c.V[x] - c.V[y], which
\* reads the registers again after VF has been written (v1).
Op8xy5(c, x, y) ==
    LET cf == IF At(c.V, x) > At(c.V, y) THEN 1 ELSE 0
        v1 == Put(c.V, 15, cf)
    IN  Ok([c EXCEPT !.V = Put(v1, x, Byte(At(v1, x) - At(v1, y) + 256))])

\* Mutant of Op8xy6: the flag is taken from Vx after the shift.
Op8xy6FlagAfter(c, x, y) ==
    LET v1 == Put(c.V, x, At(c.V, x) \div 2)
        cf == IF And(At(v1, x), 1) = 1 THEN 1 ELSE 0
    IN  Ok([c EXCEPT !.V = Put(v1, 15, cf)])

\* 8xy6 - SHR Vx: VF = Vx & 1, then c.V[x] = c.V[x] / 2 (read after the write)
Op8xy6(c, x, y) ==
    LET cf == IF And(At(c.V, x), 1) = 1 THEN 1 ELSE 0
        v1 == Put(c.V, 15, cf)
    IN  Ok([c EXCEPT !.V = Put(v1, x, At(v1, x) \div 2)])

\* 8xy7 - SUBN Vx, Vy: VF = (Vy > Vx), then c.V[x] = c.V[y] - c.V[x], which
\* reads the registers again after VF has been written (v1).
Op8xy7(c, x, y) ==
    LET cf == IF At(c.V, y) > At(c.V, x) THEN 1 ELSE 0
        v1 == Put(c.V, 15, cf)
    IN  Ok([c EXCEPT !.V = Put(v1, x, Byte(At(v1, y) - At(v1, x) + 256))])

\* 8xyE - SHL Vx: VF = (Vx & 0x80 == 0x80), then c.V[x] = c.V[x] * 2
Op8xyE(c, x, y) ==
    LET cf == IF And(At(c.V, x), 128) = 128 THEN 1 ELSE 0
        v1 == Put(c.V, 15, cf)
    IN  Ok([c EXCEPT !.V = Put(v1, x, Byte(At(v1, x) * 2))])

\* case 0x8000: the inner switch on op & 0x000F has no default, so the other
\* low nibbles fall out of it and Dispatch returns nil.
Op8(c, o) ==
    LET x == FieldX(o)
        y == FieldY(o)
        n == FieldN(o)
    IN  CASE n = 0  -> Op8xy0(c, x, y)
          [] n = 1  -> Op8xy1(c, x, y)
          [] n = 2  -> Op8xy2(c, x, y)
          [] n = 3  -> Op8xy3(c, x, y)
          [] n = 4  -> Op8xy4(c, x, y)
          [] n = 5  -> Op8xy5(c, x, y)
          [] n = 6  -> Op8xy6(c, x, y)
          [] n = 7  -> Op8xy7(c, x, y)
          [] n = 14 -> Op8xyE(c, x, y)
          [] OTHER  -> Ok(c)

\* Mutant of OpSNEReg: the comparison and the skip are made before the low
\* nibble is looked at.
OpSNERegSkipFirst(c, o) ==
    LET d == IF At(c.V, FieldX(o)) # At(c.V, FieldY(o))
             THEN [c EXCEPT !.PC = Word(c.PC + 2)]
             ELSE c
    IN  IF FieldN(o) # 0 THEN UnknownOpcode(d, o) ELSE Ok(d)

\* 9xy0 - SNE Vx, Vy: if c.V[x] != c.V[y] { c.PC += 2 }; 9xyN otherwise unknown
OpSNEReg(c, o) ==
    IF FieldN(o) # 0 THEN UnknownOpcode(c, o)
    ELSE IF At(c.V, FieldX(o)) # At(c.V, FieldY(o))
    THEN Ok([c EXCEPT !.PC = Word(c.PC + 2)])
    ELSE Ok(c)

\* Annn - LD I, addr: c.I = op & 0x0FFF; c.PC += 2
OpLDI(c, o) == Ok([c EXCEPT !.I = FieldNNN(o), !.PC = Word(c.PC + 2)])

\* Mutant of OpJPV0: the jump is followed by the usual advance of PC.
OpJPV0Advance(c, o) ==
    Ok([c EXCEPT !.PC = Word(FieldNNN(o) + At(c.V, 0) + 2)])

\* Bnnn - JP V0, addr: c.PC = op&0x0FFF + uint16(c.V[0])
OpJPV0(c, o) == Ok([c EXCEPT !.PC = Word(FieldNNN(o) + At(c.V, 0))])

\* Cxkk - RND Vx, byte: c.V[x] = kk + c.randByte(); rnd is the byte that
\* randByte returned.
OpRND(c, o, rnd) ==
    Ok([c EXCEPT !.V = Put(c.V, FieldX(o), Byte(FieldKK(o) + rnd))])

\* Dxyn - DRW Vx, Vy, nibble: s := x * y (bytes); n times over,
\* a := s + byte(n); p := c.Pixels[a]; c.Pixels[a] = c.Memory[c.I+n] ^ p.
\* c.Memory[c.I+n] is out of range, and panics, when I + n > 4095.
OpDRW(c, o) ==
    LET x == At(c.V, FieldX(o))
        y == At(c.V, FieldY(o))
        n == FieldN(o)
        s == Byte(x * y)
        a == Byte(s + n)
        m == Word(c.I + n)
        \* the loop body applied n times to the same cell
        RECURSIVE Loop(_, _)
        Loop(i, p) == IF i >= n THEN p ELSE Loop(i + 1, Xor(At(c.Memory, m), p))
    IN  IF n = 0 THEN Ok(c)
        ELSE IF m >= MemorySize THEN Panic(c)
        ELSE Ok([c EXCEPT !.Pixels = Put(c.Pixels, a, Loop(0, At(c.Pixels, a)))])

\* case 0xE000: both inner cases (0x9E, 0xA1) are empty and there is no
\* default; control leaves the switch and Dispatch returns nil.
OpE(c, o) == Ok(c)

\* Mutant of OpF: Fx65 copies in the direction of Fx55, V0..Vx to
\* Memory[I..I+x].
OpFLoadStores(c, o) ==
    LET RECURSIVE Store(_, _)
        Store(m, i) ==
            IF i > FieldX(o) THEN m
            ELSE Store(Put(m, Word(c.I + i) % MemorySize, At(c.V, i)), i + 1)
    IN  IF FieldKK(o) = 101
        THEN Ok([c EXCEPT !.Memory = Store(c.Memory, 0)])
        ELSE Ok(c)

\* case 0xF000: every inner case is empty and there is no default; control
\* leaves the switch and Dispatch returns nil.
OpF(c, o) == Ok(c)

\* case 0x0000: 00E0, 00EE, and UnknownOpcode for every other 0nnn.
Op0(c, o) ==
    CASE o = 224 -> OpCLS(c)
      [] o = 238 -> OpRET(c)
      [] OTHER   -> UnknownOpcode(c, o)

\* CPU.Dispatch(op): the switch on op & 0xF000.
Dispatch(c, o, rnd) ==
    LET f == Family(o)
    IN  CASE f = 0  -> Op0(c, o)
          [] f = 1  -> OpJP(c, o)
          [] f = 2  -> OpCALL(c, o)
          [] f = 3  -> OpSE(c, o)
          [] f = 4  -> OpSNE(c, o)
          [] f = 5  -> OpSEReg(c, o)
          [] f = 6  -> OpLD(c, o)
          [] f = 7  -> OpADD(c, o)
          [] f = 8  -> Op8(c, o)
          [] f = 9  -> OpSNEReg(c, o)
          [] f = 10 -> OpLDI(c, o)
          [] f = 11 -> OpJPV0(c, o)
          [] f = 12 -> OpRND(c, o, rnd)
          [] f = 13 -> OpDRW(c, o)
          [] f = 14 -> OpE(c, o)
          [] f = 15 -> OpF(c, o)

\* Mutant of decodeOp: the two bytes are composed low byte first.
decodeOpLittleEndian(c) ==
    IF c.PC >= MemorySize \/ Word(c.PC + 1) >= MemorySize
    THEN [value |-> -1, panic |-> TRUE]
    ELSE [value |-> Or(At(c.Memory, Word(c.PC + 1)) * 256, At(c.Memory, c.PC)),
          panic |-> FALSE]

\* CPU.op(): uint16(c.Memory[c.PC])<<8 | uint16(c.Memory[c.PC+1]).  Either
\* index is out of range, and panics, when it is above 4095.
decodeOp(c) ==
    IF c.PC >= MemorySize \/ Word(c.PC + 1) >= MemorySize
    THEN [value |-> -1, panic |-> TRUE]
    ELSE [value |-> Or(At(c.Memory, c.PC) * 256, At(c.Memory, Word(c.PC + 1))),
          panic |-> FALSE]

\* CPU.Step(), once the clock has ticked: c.Dispatch(c.op()).  fetched is
\* the opcode dispatched, -1 when fetching it panicked.
Step(c, rnd) ==
    LET f == decodeOp(c)
    IN  IF f.panic THEN [fetched |-> -1, result |-> Panic(c)]
        ELSE [fetched |-> f.value, result |-> Dispatch(c, f.value, rnd)]

\* ------------------------------------------------------------------------
\* The opcode test driver (TestOpcodes): NewCPU, the test's before function,
\* one Dispatch call, then the checks.
\* ------------------------------------------------------------------------

\* Register contents the before functions choose from.
TestBytes == {0, 1, 2, 127, 128, 255}

\* Register selectors x and y used in the dispatched opcodes.
TestRegs == {0, 1, NumRegs - 1}

\* Addresses nnn used in the dispatched opcodes (0x100, 0xFFF).
TestAddrs == {256, 4095}

\* Bytes the random source returns.
RandBytes == {1, 255}

\* opcode with family f and fields x, y, n
MkXYN(f, x, y, n) == f * 4096 + x * 256 + y * 16 + n

\* opcode with family f and fields x, kk
MkXKK(f, x, kk) == f * 4096 + x * 256 + kk

\* opcode with family f and field nnn
MkNNN(f, nnn) == f * 4096 + nnn

\* The opcodes the driver dispatches.
TestOps ==
    {0, 224, 238, 291}
    \cup {MkNNN(f, a) : f \in {1, 2, 10, 11}, a \in TestAddrs}
    \cup {MkXKK(f, x, kk) : f \in {3, 4, 6, 7}, x \in TestRegs, kk \in TestBytes}
    \cup {MkXYN(f, x, y, n) : f \in {5, 9}, x \in TestRegs, y \in TestRegs, n \in {0, 1}}
    \cup {MkXYN(8, x, y, n) : x \in TestRegs, y \in TestRegs, n \in 0..15}
    \cup {MkXKK(12, 1, kk) : kk \in {16, 255}}
    \cup {MkXYN(13, 0, 1, n) : n \in {0, 1, 2, 15}}
    \cup {MkXKK(14, 1, kk) : kk \in {158, 161, 0}}
    \cup {MkXKK(15, 1, kk) : kk \in {7, 10, 21, 24, 30, 41, 51, 85, 101, 0, 255}}

\* c, _ := NewCPU(nil)
InitWith(speed) ==
    /\ Memory = NewCPU.Memory
    /\ I = NewCPU.I
    /\ PC = NewCPU.PC
    /\ V = NewCPU.V
    /\ Stack = NewCPU.Stack
    /\ SP = NewCPU.SP
    /\ Pixels = NewCPU.Pixels
    /\ pos = (IF NewClock(speed) = "panic" THEN "panicked" ELSE "new")
    /\ op = -1
    /\ err = (IF NewClock(speed) = "panic" THEN "panic" ELSE "nil")
    /\ errOpcode = -1
    /\ pre = NewCPU
    /\ calls = <<>>
    /\ expect = -1
    /\ sprite = <<>>
    /\ sx = 0
    /\ sy = 0
    /\ collision = FALSE
    /\ display = "nil"
    /\ rendered = <<>>
    /\ program = <<>>
    /\ count = -1
    /\ fetched = -1
    /\ steps = 0
    /\ runErr = "none"
    /\ key = 0
    /\ keyErr = "nil"
    /\ stopping = FALSE
    /\ stopAt = -1
    /\ clockSpeed = speed
    /\ clock = NewClock(speed)
    /\ rand = -1
    /\ seqLen = 0

\* NewCPU(nil): the default options
Init == InitWith(DefaultClockSpeed)

\* The clock speeds given in Options: negative, zero, 1 Hz, the default and
\* one above a tick per nanosecond.
TestSpeeds == {-60, -1, 0, 1, DefaultClockSpeed, 2 * Second}

\* NewCPU(&Options{ClockSpeed: speed})
InitNew == \E speed \in TestSpeeds : InitWith(speed)

\* tt.before(t, c): the test assigns registers directly.
Before ==
    /\ pos = "new"
    /\ \E v0 \in TestBytes, v1 \in TestBytes, vf \in TestBytes :
         V' = Put(Put(Put(V, 0, v0), 1, v1), 15, vf)
    /\ pos' = "ready"
    /\ UNCHANGED <<Memory, I, PC, Stack, SP, Pixels, op, err, errOpcode, pre>>
    /\ UNCHANGED <<callVars, drawVars, displayVars, loadVars, runVars>>
    /\ UNCHANGED <<keyVars, stopVars, clockVars, seqLen, rand>>

\* The effect of one Dispatch(o) call on the state.
Apply(o, rnd) ==
    LET r == Dispatch(CPU, o, rnd)
    IN  /\ Memory' = r.c.Memory
        /\ I' = r.c.I
        /\ PC' = r.c.PC
        /\ V' = r.c.V
        /\ Stack' = r.c.Stack
        /\ SP' = r.c.SP
        /\ Pixels' = r.c.Pixels
        /\ op' = o
        /\ err' = r.err
        /\ errOpcode' = r.opcode
        /\ pre' = CPU
        /\ rand' = IF Family(o) = 12 THEN rnd ELSE -1

\* c.Dispatch(uint16(tt.op))
DispatchOp ==
    /\ pos = "ready"
    /\ \E o \in TestOps :
         \E rnd \in (IF Family(o) = 12 THEN RandBytes ELSE {0}) :
            Apply(o, rnd)
    /\ pos' = "done"
    /\ UNCHANGED <<callVars, drawVars, displayVars, loadVars, runVars>>
    /\ UNCHANGED <<keyVars, stopVars, clockVars, seqLen>>

Next == Before \/ DispatchOp

Spec == Init /\ [][Next]_vars

\* ------------------------------------------------------------------------
\* Nested subroutine calls: NewCPU, then CALL instructions, then RET
\* instructions, each a Dispatch call.  The d-th nested subroutine starts at
\* its own address, so that the recorded return addresses are all different.
\* ------------------------------------------------------------------------

\* Address of the subroutine called at nesting depth d (0x300 + 2d).
SubAddr(d) == 3 * 256 + 2 * d

\* Dispatch(2nnn); a panic ends the program
CallStep ==
    /\ pos \in {"new", "calling"}
    /\ err = "nil"
    /\ Apply(MkNNN(2, SubAddr(Len(calls))), 0)
    /\ calls' = Append(calls, PC)
    /\ pos' = "calling"
    /\ UNCHANGED <<expect, drawVars, displayVars, loadVars, runVars>>
    /\ UNCHANGED <<keyVars, stopVars, clockVars, seqLen>>

\* Dispatch(00EE), while a CALL is outstanding
RetStep ==
    /\ pos \in {"calling", "returning"}
    /\ err = "nil"
    /\ Len(calls) > 0
    /\ Apply(238, 0)
    /\ expect' = calls[Len(calls)]
    /\ calls' = SubSeq(calls, 1, Len(calls) - 1)
    /\ pos' = "returning"
    /\ UNCHANGED <<drawVars, displayVars, loadVars, runVars>>
    /\ UNCHANGED <<keyVars, stopVars, clockVars, seqLen>>

NextCalls == CallStep \/ RetStep

SpecCalls == Init /\ [][NextCalls]_vars

\* ------------------------------------------------------------------------
\* Graphics (src/graphics.go)
\* ------------------------------------------------------------------------

\* (r & byte(i)) == byte(i) with i := 0x80 >> byte(xl): bit 7 - xl of r
SpriteBit(r, xl) == (r \div (2 ^ (7 - xl))) % 2

\* Graphics.Set(x, y, on), px the Pixels array: a := x + y*GraphicsWidth;
\* collision if Pixels[a] == 0x01; Pixels[a] = Pixels[a] ^ v.  An address
\* outside the array panics at the first read.
Set(px, x, y, on) ==
    LET a == Word(x + y * GraphicsWidth)
    IN  IF a >= NumPixels
        THEN [Pixels |-> px, collision |-> FALSE, panic |-> TRUE]
        ELSE [Pixels    |-> Put(px, a, Xor(At(px, a), IF on THEN 1 ELSE 0)),
              collision |-> (At(px, a) = 1),
              panic     |-> FALSE]

\* The X position for a pixel: xp := uint16(x) + uint16(xl), less
\* GraphicsWidth once when xp >= GraphicsWidth.
WrapX(x, xl) ==
    LET xp == Word(x + xl)
    IN  IF xp >= GraphicsWidth THEN xp - GraphicsWidth ELSE xp

\* The Y position for a pixel: yp := uint16(y) + uint16(yl), less
\* GraphicsHeight once when yp >= GraphicsHeight.
WrapY(y, yl) ==
    LET yp == Word(y + yl)
    IN  IF yp >= GraphicsHeight THEN yp - GraphicsHeight ELSE yp

RECURSIVE WriteSpriteFrom(_, _, _, _, _)
\* The loops of WriteSprite from iteration k on, where yl = k div 8 and
\* xl = k mod 8; g is [Pixels, collision, panic] so far.
WriteSpriteFrom(g, spr, x, y, k) ==
    IF k >= 8 * Len(spr) \/ g.panic THEN g
    ELSE LET yl == k \div 8
             xl == k % 8
             on == SpriteBit(spr[yl + 1], xl) = 1
             r  == Set(g.Pixels, WrapX(x, xl), WrapY(y, yl), on)
         IN  WriteSpriteFrom(
                 [Pixels    |-> r.Pixels,
                  collision |-> g.collision \/ r.collision,
                  panic     |-> r.panic],
                 spr, x, y, k + 1)

\* Graphics.WriteSprite(sprite, x, y) on the Pixels array px.
WriteSprite(px, spr, x, y) ==
    WriteSpriteFrom([Pixels |-> px, collision |-> FALSE, panic |-> FALSE],
                    spr, x, y, 0)

\* Graphics.EachPixel: the addresses a = y*GraphicsWidth + x it yields, for
\* y < GraphicsHeight-1 and x < GraphicsWidth-1.
EachPixel ==
    { y * GraphicsWidth + x :
        y \in 0..(GraphicsHeight - 2), x \in 0..(GraphicsWidth - 2) }

\* Graphics.Clear on the Pixels array px: g.Pixels[addr] = 0 for each
\* address EachPixel yields.
Clear(px) == [a \in DOMAIN px \ EachPixel |-> px[a]]

\* Graphics.Draw: g.display().Render(g).  disp is what the display's Render
\* returns and rend the buffers rendered so far; the value is the error
\* returned and the buffers rendered.
GraphicsDraw(px, disp, rend) == [err |-> disp, rendered |-> Append(rend, px)]

\* ------------------------------------------------------------------------
\* Sprite drawing: a Graphics value, an optional earlier draw that leaves a
\* background, then WriteSprite, then WriteSprite again with the same
\* arguments.
\* ------------------------------------------------------------------------

\* Sprites drawn: one pixel, one full row, the glyph 0, fifteen rows.
TestSprites ==
    { <<128>>, <<255>>, <<240, 144, 144, 144, 240>>,
      <<129, 0, 0, 0, 0, 0, 0, 0, 0, 0, 0, 0, 0, 0, 129>> }

\* Origins: inside the buffer, at its edges, and beyond them.
TestXs == {0, 60, 64, 128, 255}

TestYs == {0, 30, 32, 60, 255}

\* Backgrounds: a full row drawn at one of these origins.
TestBackgrounds == { <<0, 0>>, <<0, 1>>, <<60, 30>> }

\* The effect of one WriteSprite(spr, x, y) call on the state.
ApplyDraw(spr, x, y) ==
    LET r == WriteSprite(Pixels, spr, x, y)
    IN  /\ Pixels' = r.Pixels
        /\ collision' = r.collision
        /\ err' = IF r.panic THEN "panic" ELSE "nil"
        /\ sprite' = spr
        /\ sx' = x
        /\ sy' = y
        /\ pre' = CPU
        /\ UNCHANGED <<Memory, I, PC, V, Stack, SP, op, errOpcode, callVars>>
        /\ UNCHANGED <<displayVars, loadVars, runVars>>
        /\ UNCHANGED <<keyVars, stopVars, clockVars, seqLen, rand>>

\* g.Display = DisplayFunc(...), a display whose Render fails
SetDisplay ==
    /\ pos \in {"background", "drawn"}
    /\ err = "nil"
    /\ display = "nil"
    /\ display' = "RenderError"
    /\ UNCHANGED <<cpuVars, pos, op, err, errOpcode, pre>>
    /\ UNCHANGED <<callVars, drawVars, rendered, loadVars, runVars>>
    /\ UNCHANGED <<keyVars, stopVars, clockVars, seqLen, rand>>

\* an earlier draw
Background ==
    /\ pos = "new"
    /\ \E b \in TestBackgrounds : ApplyDraw(<<255>>, b[1], b[2])
    /\ pos' = "background"

\* g.WriteSprite(sprite, x, y)
Draw ==
    /\ pos \in {"new", "background"}
    /\ \E spr \in TestSprites, x \in TestXs, y \in TestYs : ApplyDraw(spr, x, y)
    /\ pos' = "drawn"

\* the same call again; a panic has ended the program
Redraw ==
    /\ pos = "drawn"
    /\ err = "nil"
    /\ ApplyDraw(sprite, sx, sy)
    /\ pos' = "redrawn"

\* g.Clear()
ClearPixels ==
    /\ pos \in {"background", "drawn"}
    /\ err = "nil"
    /\ Pixels' = Clear(Pixels)
    /\ pre' = CPU
    /\ pos' = "cleared"
    /\ UNCHANGED <<Memory, I, PC, V, Stack, SP, op, err, errOpcode>>
    /\ UNCHANGED <<callVars, drawVars, displayVars, loadVars, runVars>>
    /\ UNCHANGED <<keyVars, stopVars, clockVars, seqLen, rand>>

\* c.Dispatch(0x00E0) on the CPU that holds the Graphics value
DispatchCLS ==
    /\ pos \in {"background", "drawn"}
    /\ err = "nil"
    /\ Apply(224, 0)
    /\ pos' = "cleared"
    /\ UNCHANGED <<callVars, drawVars, displayVars, loadVars, runVars>>
    /\ UNCHANGED <<keyVars, stopVars, clockVars, seqLen>>

\* g.Draw()
DrawDisplay ==
    /\ pos \in {"background", "drawn"}
    /\ err = "nil"
    /\ LET r == GraphicsDraw(Pixels, display, rendered)
       IN  /\ err' = r.err
           /\ rendered' = r.rendered
    /\ pre' = CPU
    /\ pos' = "rendered"
    /\ UNCHANGED <<cpuVars, op, errOpcode, display>>
    /\ UNCHANGED <<callVars, drawVars, loadVars, runVars>>
    /\ UNCHANGED <<keyVars, stopVars, clockVars, seqLen, rand>>

NextDraw ==
    \/ SetDisplay
    \/ Background
    \/ Draw
    \/ Redraw
    \/ ClearPixels
    \/ DispatchCLS
    \/ DrawDisplay

SpecDraw == Init /\ [][NextDraw]_vars

\* ------------------------------------------------------------------------
\* The Dxyn entries of the opcode tests: NewCPU, a before function that
\* assigns I, Memory[0x200], Pixels[0], V0, V1, VF and the display, then one
\* Dispatch call.
\* ------------------------------------------------------------------------

\* c.I: the font, the program area, the last byte of memory
DrawIs == {0, ProgramStart, MemorySize - 1}

\* c.Memory[0x200]: nothing, the rightmost bit, the leftmost bit
DrawBytes == {0, 1, 128}

\* c.V[0], the x coordinate
DrawV0s == {0, 62}

\* c.V[1], the y coordinate (0x1C, GraphicsHeight + 28)
DrawV1s == {0, 28, 60}

\* The opcodes dispatched: D001, D005, D015, D01F, D101 and 00E0.
DrawOps ==
    { MkXYN(13, 0, 0, 1), MkXYN(13, 0, 0, 5), MkXYN(13, 0, 1, 5),
      MkXYN(13, 0, 1, 15), MkXYN(13, 1, 0, 1), 224 }

\* tt.before(t, c)
BeforeDraw ==
    /\ pos = "new"
    /\ \E i \in DrawIs, m \in DrawBytes, p \in {0, 1},
          v0 \in DrawV0s, v1 \in DrawV1s, vf \in {0, 1},
          d \in {"nil", "RenderError"} :
         /\ I' = i
         /\ Memory' = Put(Memory, ProgramStart, m)
         /\ Pixels' = Put(Pixels, 0, p)
         /\ V' = Put(Put(Put(V, 0, v0), 1, v1), 15, vf)
         /\ display' = d
    /\ pos' = "ready"
    /\ UNCHANGED <<PC, Stack, SP, op, err, errOpcode, pre>>
    /\ UNCHANGED <<callVars, drawVars, rendered, loadVars, runVars>>
    /\ UNCHANGED <<keyVars, stopVars, clockVars, seqLen, rand>>

\* c.Dispatch(uint16(tt.op))
DispatchDraw ==
    /\ pos = "ready"
    /\ \E o \in DrawOps : Apply(o, 0)
    /\ pos' = "done"
    /\ UNCHANGED <<callVars, drawVars, displayVars, loadVars, runVars>>
    /\ UNCHANGED <<keyVars, stopVars, clockVars, seqLen>>

NextGfx == BeforeDraw \/ DispatchDraw

SpecGfx == Init /\ [][NextGfx]_vars

\* ------------------------------------------------------------------------
\* The keypad and Fx instructions as TestOpcodes dispatches them: the test
\* sets c.Keypad, V, I and memory, then calls Dispatch.
\* ------------------------------------------------------------------------

\* The keys the keypad returns and the results of its Get: a key, ErrQuit
\* (the escape key) or another error (a key that is not mapped).
TestKeys == {1, 2}

KeyErrs == {"nil", "ErrQuit", "KeypadError"}

\* Register values: digits and 0xFF.
FxBytes == {0, 1, 15, 255}

\* Values of I: 0 and 0x200.
FxIs == {0, ProgramStart}

\* Memory from I on: as NewCPU left it, or 1, 2, 3.
FxMems == {<<>>, <<1, 2, 3>>}

\* Ex9E, ExA1 and Fx0A with x = 1; Fx29, Fx33, Fx55 and Fx65 with x in 0..2.
FxOps ==
    {MkXKK(14, 1, 158), MkXKK(14, 1, 161), MkXKK(15, 1, 10)}
    \cup {MkXKK(15, x, kk) : x \in 0..2, kk \in {41, 51, 85, 101}}

\* tt.before(t, c)
BeforeFx ==
    /\ pos = "new"
    /\ \E v0 \in FxBytes, v1 \in FxBytes, v2 \in FxBytes :
         V' = Put(Put(Put(V, 0, v0), 1, v1), 2, v2)
    /\ \E i \in FxIs, m \in FxMems :
         /\ I' = i
         /\ Memory' = load(Memory, i, m).Memory
    /\ \E k \in TestKeys :
         /\ key' = k
         /\ keyErr' = "nil"
    /\ pos' = "ready"
    /\ UNCHANGED <<PC, Stack, SP, Pixels, op, err, errOpcode, pre>>
    /\ UNCHANGED <<callVars, drawVars, displayVars, loadVars, runVars>>
    /\ UNCHANGED <<stopVars, clockVars, seqLen, rand>>

\* c.Dispatch(uint16(tt.op))
DispatchFx ==
    /\ pos = "ready"
    /\ \E o \in FxOps : Apply(o, 0)
    /\ pos' = "done"
    /\ UNCHANGED <<callVars, drawVars, displayVars, loadVars, runVars>>
    /\ UNCHANGED <<keyVars, stopVars, clockVars, seqLen>>

NextFx == BeforeFx \/ DispatchFx

SpecFx == Init /\ [][NextFx]_vars

\* ------------------------------------------------------------------------
\* Sequences of Dispatch calls on a fresh CPU, each made only if the one
\* before returned nil.  The random source returns 1.
\* ------------------------------------------------------------------------

\* The length of the sequences followed.
MaxSeq == 3

\* Recognized instructions: LD V0 0xFF, LD V0 1, ADD V1 1, JP 0xFFF,
\* JP V0 0xFFF, JP V0 0x100, LD I 0xFFF, LD I 0, CALL 0x100, RET, SE V0 0,
\* ADD V0 V1, DRW V0 V1 1, ADD I V0; CLS, SNE V0 0, SE V0 V1, SNE V0 V1,
\* SUB V0 V1, RND V1 0xFF, SKP V1, LD B V1, LD [I] V1, LD V1 [I]; and the
\* values 0x0000 and 0x5011, which are no instructions.
SeqOps ==
    {MkXKK(6, 0, 255), MkXKK(6, 0, 1), MkXKK(7, 1, 1), MkNNN(1, 4095),
     MkNNN(11, 4095), MkNNN(11, 256), MkNNN(10, 4095), MkNNN(10, 0),
     MkNNN(2, 256), 238, MkXKK(3, 0, 0), MkXYN(8, 0, 1, 4),
     MkXYN(13, 0, 1, 1), MkXKK(15, 0, 30),
     224, MkXKK(4, 0, 0), MkXYN(5, 0, 1, 0), MkXYN(9, 0, 1, 0),
     MkXYN(8, 0, 1, 5), MkXKK(12, 1, 255), MkXKK(14, 1, 158),
     MkXKK(15, 1, 51), MkXKK(15, 1, 85), MkXKK(15, 1, 101),
     0, MkXYN(5, 0, 1, 1)}

\* c.Dispatch(o), the next call of the sequence
DispatchSeq ==
    /\ pos \in {"new", "seq"}
    /\ err = "nil"
    /\ seqLen < MaxSeq
    /\ \E o \in SeqOps : Apply(o, 1)
    /\ pos' = "seq"
    /\ seqLen' = seqLen + 1
    /\ UNCHANGED <<callVars, drawVars, displayVars, loadVars, runVars>>
    /\ UNCHANGED <<keyVars, stopVars, clockVars>>

NextSeq == DispatchSeq

SpecSeq == Init /\ [][NextSeq]_vars

\* ------------------------------------------------------------------------
\* Cxkk on a CPU that has no randByteFunc: c.randByte() calls randByte().
\* ------------------------------------------------------------------------

\* RND V0 0xFF, RND V1 0x0F, RND V1 0x00
RandOps == {MkXKK(12, 0, 255), MkXKK(12, 1, 15), MkXKK(12, 1, 0)}

\* c.Dispatch(o) with the default random source
DispatchRand ==
    /\ pos = "new"
    /\ \E o \in RandOps, rnd \in randByte : Apply(o, rnd)
    /\ pos' = "done"
    /\ UNCHANGED <<callVars, drawVars, displayVars, loadVars, runVars>>
    /\ UNCHANGED <<keyVars, stopVars, clockVars, seqLen>>

NextRand == DispatchRand

SpecRand == Init /\ [][NextRand]_vars

\* ------------------------------------------------------------------------
\* Running a program (runRun): NewCPU, LoadBytes(program), then Run, which
\* calls Step until a Step returns an error.  c.op() is also called on its
\* own, as TestCPU_decodeOp does.
\* ------------------------------------------------------------------------

\* The number of Step calls after which Run is no longer followed.
MaxSteps == 8

\* The bytes of the default random source that the runs follow.
RunRandBytes == {0, 1, 254, 255}

\* A program one byte longer than the space from 0x200 to the end of
\* memory, of non-zero bytes.
BigProgram == [i \in 1..(MemorySize - ProgramStart + 1) |-> ((i - 1) % 255) + 1]

\* The programs loaded: none; 0x0102 (TestCPU_Load); A2F0 (TestCPU_decodeOp);
\* A100 (TestCPU_Step); 8008; 7001; CALL 0x200; A202, C0FF; JP 0xFFF;
\* A202, E100; A202, A204, RET; A202, 7103; A202, JP 0x300; A202, D005;
\* F10A; the big program.
TestPrograms ==
    { <<>>,
      <<1, 2>>,
      <<162, 240>>,
      <<161, 0>>,
      <<128, 8>>,
      <<112, 1>>,
      <<34, 0>>,
      <<162, 2, 192, 255>>,
      <<31, 255>>,
      <<162, 2, 225, 0>>,
      <<162, 2, 162, 4, 0, 238>>,
      <<162, 2, 113, 3>>,
      <<162, 2, 19, 0>>,
      <<162, 2, 208, 5>>,
      <<241, 10>>,
      BigProgram }

\* cpu.Keypad = k; cpu.LoadBytes(program)
LoadProgram ==
    /\ pos = "new"
    /\ \E k \in TestKeys, e \in KeyErrs :
         /\ key' = (IF e = "nil" THEN k ELSE 0)
         /\ keyErr' = e
    /\ \E p \in TestPrograms :
         LET r == LoadBytes(Memory, p)
         IN  /\ Memory' = r.Memory
             /\ count' = r.n
             /\ err' = r.err
             /\ program' = p
    /\ pre' = CPU
    /\ pos' = "loaded"
    /\ UNCHANGED <<I, PC, V, Stack, SP, Pixels, op, errOpcode>>
    /\ UNCHANGED <<callVars, drawVars, displayVars, runVars>>
    /\ UNCHANGED <<stopVars, clockVars, seqLen, rand>>

\* c.op(), called on its own once a program is loaded
CallOp ==
    /\ pos = "loaded"
    /\ err = "nil"
    /\ LET f == decodeOp(CPU)
       IN  /\ fetched' = f.value
           /\ err' = IF f.panic THEN "panic" ELSE "nil"
    /\ pre' = CPU
    /\ pos' = "decoded"
    /\ UNCHANGED <<cpuVars, op, errOpcode, steps, runErr>>
    /\ UNCHANGED <<callVars, drawVars, displayVars, loadVars>>
    /\ UNCHANGED <<keyVars, stopVars, clockVars, seqLen, rand>>

\* The top of Run's loop when no stop has been requested: Run goes on to
\* call Step.  Run is entered only after a load that returned no error.
RunEnter ==
    /\ pos \in {"loaded", "running"}
    /\ err = "nil"
    /\ ~stopping
    /\ steps < MaxSteps
    /\ pos' = "stepping"
    /\ UNCHANGED <<cpuVars, op, err, errOpcode, pre>>
    /\ UNCHANGED <<callVars, drawVars, displayVars, loadVars, runVars>>
    /\ UNCHANGED <<keyVars, stopVars, clockVars, seqLen, rand>>

\* The top of Run's loop when a stop has been requested: Run returns nil.
RunStop ==
    /\ pos \in {"loaded", "running"}
    /\ err = "nil"
    /\ stopping
    /\ pos' = "stopped"
    /\ runErr' = "nil"
    /\ UNCHANGED <<cpuVars, op, err, errOpcode, pre, fetched, steps>>
    /\ UNCHANGED <<callVars, drawVars, displayVars, loadVars>>
    /\ UNCHANGED <<keyVars, stopVars, clockVars, seqLen, rand>>

\* cpu.Stop(), called by the signal goroutine while Run is executing:
\* between two iterations or while a Step is in progress.
StopRequest ==
    /\ pos \in {"running", "stepping"}
    /\ err = "nil"
    /\ ~stopping
    /\ stopping' = TRUE
    /\ stopAt' = steps
    /\ UNCHANGED <<cpuVars, pos, op, err, errOpcode, pre>>
    /\ UNCHANGED <<callVars, drawVars, displayVars, loadVars, runVars>>
    /\ UNCHANGED <<keyVars, clockVars, seqLen, rand>>

\* The rest of the iteration: err := c.Step(); if err is not nil, Run
\* returns it, and a panic ends the program.  Step first receives from
\* Clock, which blocks for ever on a nil channel.
RunStep ==
    /\ pos = "stepping"
    /\ err = "nil"
    /\ clock = "ticking"
    /\ \E rnd \in {b \in randByte : b \in RunRandBytes} :
         LET s == Step(CPU, rnd)
             r == s.result
         IN  /\ Memory' = r.c.Memory
             /\ I' = r.c.I
             /\ PC' = r.c.PC
             /\ V' = r.c.V
             /\ Stack' = r.c.Stack
             /\ SP' = r.c.SP
             /\ Pixels' = r.c.Pixels
             /\ op' = s.fetched
             /\ fetched' = s.fetched
             /\ rand' = IF s.fetched # -1 /\ Family(s.fetched) = 12 THEN rnd ELSE -1
             /\ err' = r.err
             /\ errOpcode' = r.opcode
             /\ runErr' = IF r.err \in {"nil", "panic"} THEN "none" ELSE r.err
             /\ pos' = CASE r.err = "nil"   -> "running"
                         [] r.err = "panic" -> "panicked"
                         [] OTHER           -> "returned"
    /\ pre' = CPU
    /\ steps' = steps + 1
    /\ UNCHANGED <<callVars, drawVars, displayVars, loadVars>>
    /\ UNCHANGED <<keyVars, stopVars, clockVars, seqLen>>

NextRun ==
    LoadProgram \/ CallOp \/ RunEnter \/ RunStep \/ RunStop \/ StopRequest

SpecRun == Init /\ [][NextRun]_vars

\* Runs of the program for every clock speed given to NewCPU.
SpecNew == InitNew /\ [][NextRun]_vars

\* The goroutine that runs Run is scheduled and the clock ticks, so an
\* iteration that can be taken is taken.
SpecRunFair ==
    SpecRun /\ WF_vars(RunEnter) /\ WF_vars(RunStep) /\ WF_vars(RunStop)

\* ------------------------------------------------------------------------
\* Properties
\* ------------------------------------------------------------------------

\* The last call was Dispatch of an 8xyN instruction with low nibble n.
Was8(n) == op # -1 /\ Family(op) = 8 /\ FieldN(op) = n

\* The last call was Dispatch of an instruction of family f.
WasFamily(f) == op # -1 /\ Family(op) = f

\* Everything but PC is as it was before the last call.
OnlyPCChanged ==
    /\ Memory = pre.Memory
    /\ I = pre.I
    /\ V = pre.V
    /\ Stack = pre.Stack
    /\ SP = pre.SP
    /\ Pixels = pre.Pixels

\* C1: after 8xy4 with x # 0xF, VF = 1 if Vx + Vy > 255 and 0 otherwise, and
\* Vx = (Vx + Vy) mod 256, for the values Vx and Vy held before.
C1_AddCarry ==
    (Was8(4) /\ FieldX(op) # 15) =>
        LET a == At(pre.V, FieldX(op))
            b == At(pre.V, FieldY(op))
        IN  /\ err = "nil"
            /\ At(V, 15) = (IF a + b > 255 THEN 1 ELSE 0)
            /\ At(V, FieldX(op)) = (a + b) % 256

\* An 8xy4 that overflowed, and one that did not although Vx + Vy = 255.
C1_Witness ==
    /\ Was8(4)
    /\ FieldX(op) = 1
    /\ FieldY(op) = 15
    /\ At(pre.V, 1) + At(pre.V, 15) = 256
    /\ At(V, 15) = 1
    /\ At(V, 1) = 0

\* C2: after 8xy5 with x # 0xF, VF = 1 iff Vx > Vy and Vx = (Vx - Vy) mod 256;
\* after 8xy7, VF = 1 iff Vy > Vx and Vx = (Vy - Vx) mod 256.
C2_SubBorrow ==
    /\ (Was8(5) /\ FieldX(op) # 15) =>
          LET a == At(pre.V, FieldX(op))
              b == At(pre.V, FieldY(op))
          IN  /\ At(V, 15) = (IF a > b THEN 1 ELSE 0)
              /\ At(V, FieldX(op)) = (a - b + 256) % 256
    /\ (Was8(7) /\ FieldX(op) # 15) =>
          LET a == At(pre.V, FieldX(op))
              b == At(pre.V, FieldY(op))
          IN  /\ At(V, 15) = (IF b > a THEN 1 ELSE 0)
              /\ At(V, FieldX(op)) = (b - a + 256) % 256

\* C3: after 8xy6 with x # 0xF, VF is bit 0 of the old Vx and Vx = Vx div 2;
\* after 8xyE, VF is bit 7 of the old Vx and Vx = (2 * Vx) mod 256.
C3_Shifts ==
    /\ (Was8(6) /\ FieldX(op) # 15) =>
          LET v == At(pre.V, FieldX(op))
          IN  /\ err = "nil"
              /\ At(V, 15) = v % 2
              /\ At(V, FieldX(op)) = v \div 2
    /\ (Was8(14) /\ FieldX(op) # 15) =>
          LET v == At(pre.V, FieldX(op))
          IN  /\ err = "nil"
              /\ At(V, 15) = (v \div 128) % 2
              /\ At(V, FieldX(op)) = (2 * v) % 256

\* A right shift that dropped a 1 while VF held something else before.
C3_Witness ==
    /\ Was8(6)
    /\ FieldX(op) = 1
    /\ At(pre.V, 1) = 255
    /\ At(pre.V, 15) = 0
    /\ At(V, 15) = 1
    /\ At(V, 1) = 127

\* The condition of the conditional skip o in the CPU c.
SkipCondition(c, o) ==
    CASE Family(o) = 3 -> At(c.V, FieldX(o)) = FieldKK(o)
      [] Family(o) = 4 -> At(c.V, FieldX(o)) # FieldKK(o)
      [] Family(o) = 5 -> At(c.V, FieldX(o)) = At(c.V, FieldY(o))
      [] Family(o) = 9 -> At(c.V, FieldX(o)) # At(c.V, FieldY(o))

\* o is one of 3xkk, 4xkk, 5xy0, 9xy0
IsSkip(o) ==
    \/ Family(o) \in {3, 4}
    \/ Family(o) \in {5, 9} /\ FieldN(o) = 0

\* C4: a conditional skip leaves PC 2 greater than before when its condition
\* is false and 4 greater when it is true, and changes nothing else.
C4_SkipPC ==
    (op # -1 /\ IsSkip(op)) =>
        /\ PC = pre.PC + (IF SkipCondition(pre, op) THEN 4 ELSE 2)
        /\ OnlyPCChanged

\* o is one of the instructions that neither jump, call, return nor skip:
\* 00E0, 6xkk, 7xkk, 8xy0-8xy7, 8xyE, Annn, Cxkk, Dxyn, Fx07, Fx15, Fx18,
\* Fx1E, Fx29, Fx33, Fx55, Fx65.
IsPlain(o) ==
    \/ o = 224
    \/ Family(o) \in {6, 7, 10, 12, 13}
    \/ Family(o) = 8 /\ FieldN(o) \in (0..7) \cup {14}
    \/ Family(o) = 15 /\ FieldKK(o) \in {7, 21, 24, 30, 41, 51, 85, 101}

\* C5: dispatching an instruction that is no jump, call, return or skip
\* leaves PC exactly 2 greater than before.
C5_PlainPC == (op # -1 /\ IsPlain(op)) => PC = pre.PC + 2

C7_CallIncrementsFirst ==
    (WasFamily(2) /\ pre.SP = 0 /\ pre.PC = ProgramStart) =>
        /\ At(Stack, 1) = ProgramStart
        /\ SP = 1
        /\ PC = FieldNNN(op)

\* C8: after k nested CALLs (1 <= k <= 16), every RET sets PC to the address
\* recorded by its matching CALL, and after the last RET SP is 0 again.
C8_CallRetMatch ==
    pos = "returning" =>
        /\ err = "nil"
        /\ PC = expect
        /\ (calls = <<>> => SP = 0)

\* o is an instruction of the catalogue.
IsCatalogue(o) ==
    \/ o \in {224, 238}
    \/ Family(o) \in {1, 2, 3, 4, 6, 7, 10, 11, 12, 13}
    \/ Family(o) \in {5, 9} /\ FieldN(o) = 0
    \/ Family(o) = 8 /\ FieldN(o) \in (0..7) \cup {14}
    \/ Family(o) = 14 /\ FieldKK(o) \in {158, 161}
    \/ Family(o) = 15 /\ FieldKK(o) \in {7, 10, 21, 24, 30, 41, 51, 85, 101}

\* C9: Dispatch of a value that is no instruction of the catalogue returns an
\* UnknownOpcode error whose Opcode field is that value.
C9_UnknownOpcode ==
    (op # -1 /\ ~IsCatalogue(op)) =>
        /\ err = "UnknownOpcode"
        /\ errOpcode = op

\* The last call was WriteSprite(sprite, sx, sy).
WasDraw == pos \in {"background", "drawn", "redrawn"}

\* The cell at index a as C10 describes it after drawing spr at (x, y) on
\* the buffer px: XORed with bit 7 - c of row r when a is the cell
\* ((x + c) mod 64, (y + r) mod 32) of some row r and column c in 0..7,
\* unchanged otherwise.
ExpectedCell(px, spr, x, y, a) ==
    LET c == ((a % GraphicsWidth) - x + 256) % GraphicsWidth
        r == ((a \div GraphicsWidth) - y + 256) % GraphicsHeight
    IN  IF c < 8 /\ r < Len(spr)
        THEN Xor(At(px, a), SpriteBit(spr[r + 1], c))
        ELSE At(px, a)

\* C10: after drawing a sprite of n rows at (x, y), each cell
\* ((x + c) mod 64, (y + r) mod 32) is its previous value XOR bit 7 - c of
\* row r, and every other cell is unchanged.
C10_SpriteXor ==
    WasDraw =>
        /\ err = "nil"
        /\ \A a \in 0..(NumPixels - 1) :
              At(Pixels, a) = ExpectedCell(pre.Pixels, sprite, sx, sy, a)

\* The sprite Dxyn reads: the n bytes of memory from address c.I on.
SpriteOf(c, o) == [i \in 1..FieldN(o) |-> At(c.Memory, c.I + i - 1)]

\* The cells a sprite of n rows at (x, y) addresses: ((x + c) mod 64,
\* (y + r) mod 32) for each row r and column c in 0..7.
SpriteCells(x, y, n) ==
    { ((y + r) % GraphicsHeight) * GraphicsWidth + ((x + c) % GraphicsWidth) :
        r \in 0..(n - 1), c \in 0..7 }

\* C11: after a Dxyn that returned nil, VF is 1 if some cell the sprite
\* addresses held 1 before the draw and 0 if none did, whatever VF held
\* before.
C11_DrawSetsVF ==
    (WasFamily(13) /\ pos = "done" /\ err = "nil") =>
        LET cells == SpriteCells(At(pre.V, FieldX(op)), At(pre.V, FieldY(op)),
                                 FieldN(op))
            hit   == \E a \in cells : At(pre.Pixels, a) = 1
        IN  At(V, 15) = (IF hit THEN 1 ELSE 0)

\* C12: a WriteSprite call that returned reports a collision exactly when it
\* turned at least one pixel from 1 to 0.
C12_CollisionIffErased ==
    (WasDraw /\ err = "nil") =>
        (collision <=>
            \E a \in DOMAIN pre.Pixels : pre.Pixels[a] = 1 /\ At(Pixels, a) = 0)

\* The last WriteSprite call ended as the result r does.
SameDraw(r) ==
    /\ err = (IF r.panic THEN "panic" ELSE "nil")
    /\ Pixels = r.Pixels
    /\ collision = r.collision

\* C13: drawing a sprite at y = 32 + k gives the buffer and the collision
\* result that drawing it at y = k on the same buffer gives, and drawing at
\* x = 64 + k those of drawing at x = k.
C13_WrapEquivalence ==
    WasDraw =>
        /\ (sy >= GraphicsHeight =>
                SameDraw(WriteSprite(pre.Pixels, sprite, sx, sy - GraphicsHeight)))
        /\ (sx >= GraphicsWidth =>
                SameDraw(WriteSprite(pre.Pixels, sprite, sx - GraphicsWidth, sy)))

\* The sprite spr has at least one set bit.
HasSetBit(spr) == \E i \in 1..Len(spr) : spr[i] # 0

\* C14: a sprite can be drawn at any origin, and drawing it a second time at
\* the same origin leaves every pixel as it was before the first draw (pre
\* of the state between the two draws) and reports a collision if the
\* sprite has a set bit.
C14_DrawTwice ==
    [][ /\ (pos' = "drawn" => err' = "nil")
        /\ (pos' = "redrawn" =>
               /\ err' = "nil"
               /\ Pixels' = pre.Pixels
               /\ (HasSetBit(sprite) => collision')) ]_vars

\* C15: after clear-screen (Dispatch of 00E0, or Graphics.Clear) every cell
\* of the buffer is 0, and V, I, SP, the stack and memory are as before.
C15_ClearScreen ==
    pos = "cleared" =>
        /\ \A a \in 0..(NumPixels - 1) : At(Pixels, a) = 0
        /\ V = pre.V
        /\ I = pre.I
        /\ SP = pre.SP
        /\ Stack = pre.Stack
        /\ Memory = pre.Memory

\* C16: a Dxyn that has drawn has had the display render the buffer as the
\* draw left it, once, and returns what Render returned.
C16_RenderAfterDraw ==
    (WasFamily(13) /\ pos = "done" /\ err # "panic") =>
        /\ rendered = <<Pixels>>
        /\ err = display

\* After LoadBytes(program): the count returned is min(len(p), 4096 - 0x200),
\* that many bytes of p are in memory from 0x200 on, in order, and memory
\* below 0x200 is as before.
LoadedPrefix ==
    LET space == MemorySize - ProgramStart
        n     == IF Len(program) < space THEN Len(program) ELSE space
    IN  /\ count = n
        /\ \A i \in 1..n : At(Memory, ProgramStart + i - 1) = program[i]
        /\ \A a \in 0..(ProgramStart - 1) : At(Memory, a) = At(pre.Memory, a)

\* C17 as stated: LoadBytes(p) copies the first min(len(p), 4096 - 0x200)
\* bytes of p to 0x200, returns that count with a nil error, and leaves
\* memory below 0x200 unchanged.
C17_LoadBytesNilError ==
    pos = "loaded" => (LoadedPrefix /\ err = "nil")

\* C17 as amended: as above, but the error is nil only for a non-empty p;
\* for an empty p LoadBytes returns 0 and io.EOF.
C17_LoadBytes ==
    pos = "loaded" =>
        /\ LoadedPrefix
        /\ err = (IF Len(program) = 0 THEN "EOF" ELSE "nil")

\* A program longer than the space left was loaded: the count is the space
\* and the last byte of memory holds the last byte that fitted.
C17_Witness ==
    /\ pos = "loaded"
    /\ Len(program) > MemorySize - ProgramStart
    /\ count = MemorySize - ProgramStart
    /\ err = "nil"
    /\ At(Memory, MemorySize - 1) = program[MemorySize - ProgramStart]
    /\ At(Memory, MemorySize - 1) # 0

\* C18: the CPU NewCPU returns has PC = 0x200, I = 0, SP = 0, every V
\* register, stack slot and pixel 0, the font table in memory from address
\* 0 on, and 0 in every memory byte after the table.
C18_NewCPU ==
    pos = "new" =>
        /\ PC = 512
        /\ I = 0
        /\ SP = 0
        /\ \A r \in 0..15 : At(V, r) = 0
        /\ \A k \in 0..15 : At(Stack, k) = 0
        /\ \A a \in 0..2047 : At(Pixels, a) = 0
        /\ \A a \in 0..(Len(FontSet) - 1) : At(Memory, a) = FontSet[a + 1]
        /\ \A a \in Len(FontSet)..4095 : At(Memory, a) = 0
        /\ err = "nil"

\* The fresh CPU: the first and the last byte of the font are in place and
\* the byte after the font is 0.
C18_Witness ==
    /\ pos = "new"
    /\ PC = ProgramStart
    /\ At(Memory, 0) = FontSet[1]
    /\ At(Memory, Len(FontSet) - 1) = FontSet[Len(FontSet)]
    /\ FontSet[Len(FontSet)] # 0
    /\ At(Memory, Len(FontSet)) = 0

\* C19: the opcode c.op() returns is Memory[PC] * 256 + Memory[PC + 1] and
\* the call changes nothing in the CPU; the opcode a Step dispatches is that
\* value for the PC and memory the Step started with.
C19_FetchBigEndian ==
    /\ (pos = "decoded" /\ err = "nil") =>
          /\ fetched = At(Memory, PC) * 256 + At(Memory, PC + 1)
          /\ CPU = pre
    /\ (pos \in {"running", "returned"}) =>
          /\ fetched = At(pre.Memory, pre.PC) * 256 + At(pre.Memory, pre.PC + 1)
          /\ op = fetched

\* A2F0 fetched from 0x200 (TestCPU_decodeOp), the two bytes being different.
C19_Witness ==
    /\ pos = "decoded"
    /\ PC = ProgramStart
    /\ At(Memory, ProgramStart) = 162
    /\ At(Memory, ProgramStart + 1) = 240
    /\ fetched = 41712

\* C20: Run goes on only while every Step has returned nil; when a Step
\* returns an error Run returns that error and nothing is dispatched after
\* it; and a Step that fetches a value that is no instruction of the
\* catalogue ends the run with an UnknownOpcode error for that value.
C20_RunUntilError ==
    /\ [](pos = "running" => (runErr = "none" /\ err = "nil"))
    /\ [](pos = "returned" => (runErr = err /\ err # "nil"))
    /\ [][runErr # "none" => UNCHANGED <<cpuVars, steps>>]_vars
    /\ []((pos \in {"running", "returned"} /\ ~IsCatalogue(op)) =>
            (pos = "returned" /\ runErr = "UnknownOpcode" /\ errOpcode = op))

\* C21: a stop requested while Run is executing is observed only at the top
\* of the loop, never inside an instruction; after the request Run
\* eventually returns nil; and by then it has dispatched at most the
\* instruction that was in progress when the request was made.
C21_StopEndsRun ==
    /\ [][pos' = "stopped" => (pos \in {"loaded", "running"} /\ UNCHANGED cpuVars)]_vars
    /\ [](pos = "stopped" => steps <= stopAt + 1)
    /\ stopping ~> (pos = "stopped" /\ runErr = "nil")

\* C24: after Cxkk, Vx is the bitwise AND of the byte the random source
\* returned and kk.
C24_RandomAnd ==
    WasFamily(12) =>
        /\ err = "nil"
        /\ At(V, FieldX(op)) = And(rand, FieldKK(op))

\* C25: after 1nnn, PC = nnn; after Bnnn, PC = nnn + V0 for the V0 held
\* before; no further 2 is added, and registers, I, stack, SP, memory and
\* pixels are as before.
C25_Jumps ==
    /\ WasFamily(1) =>
          /\ err = "nil"
          /\ PC = FieldNNN(op)
          /\ OnlyPCChanged
    /\ WasFamily(11) =>
          /\ err = "nil"
          /\ PC = FieldNNN(op) + At(pre.V, 0)
          /\ OnlyPCChanged

\* A Bnnn with V0 = 0xFF and nnn = 0xFFF: PC is the sum, 0x10FE.
C25_Witness ==
    /\ WasFamily(11)
    /\ FieldNNN(op) = 4095
    /\ At(pre.V, 0) = 255
    /\ PC = 4350
    /\ pre.PC = ProgramStart

\* The last call was Dispatch of Fxkk with low byte kk.
WasFx(kk) == op # -1 /\ Family(op) = 15 /\ FieldKK(op) = kk

\* C26: after Fx29 with a digit d in 0..15 in Vx, I = 5 * d.
C26_FontAddress ==
    (WasFx(41) /\ At(pre.V, FieldX(op)) \in 0..15) =>
        /\ err = "nil"
        /\ I = 5 * At(pre.V, FieldX(op))

\* C27: after Fx33 with the value v in Vx, Memory[I] = v div 100,
\* Memory[I + 1] = (v div 10) mod 10 and Memory[I + 2] = v mod 10, and
\* I and Vx are as before.
C27_BCD ==
    WasFx(51) =>
        LET v == At(pre.V, FieldX(op))
        IN  /\ err = "nil"
            /\ At(Memory, pre.I) = v \div 100
            /\ At(Memory, pre.I + 1) = (v \div 10) % 10
            /\ At(Memory, pre.I + 2) = v % 10
            /\ I = pre.I
            /\ At(V, FieldX(op)) = v

\* C28: after Fx55, Memory[I + i] = Vi for every i in 0..x; after Fx65,
\* Vi = Memory[I + i] for every i in 0..x (so an Fx65 that follows an Fx55
\* with the same I restores V0..Vx) and every register above x is as before.
C28_StoreLoad ==
    /\ WasFx(85) =>
          /\ err = "nil"
          /\ \A i \in 0..FieldX(op) : At(Memory, pre.I + i) = At(pre.V, i)
    /\ WasFx(101) =>
          /\ err = "nil"
          /\ \A i \in 0..FieldX(op) : At(V, i) = At(pre.Memory, pre.I + i)
          /\ \A r \in (FieldX(op) + 1)..(NumRegs - 1) : At(V, r) = At(pre.V, r)

\* The last call was Dispatch of Exkk with low byte kk.
WasEx(kk) == op # -1 /\ Family(op) = 14 /\ FieldKK(op) = kk

\* C29: after Ex9E, PC is 4 more than before if the key the keypad reports
\* equals Vx and 2 more otherwise; after ExA1, PC is 4 more than before if
\* the key differs from Vx and 2 more if it equals Vx.
C29_KeySkips ==
    /\ WasEx(158) =>
          /\ err = "nil"
          /\ PC = pre.PC + (IF key = At(pre.V, FieldX(op)) THEN 4 ELSE 2)
    /\ WasEx(161) =>
          /\ err = "nil"
          /\ PC = pre.PC + (IF key # At(pre.V, FieldX(op)) THEN 4 ELSE 2)

\* C30: in every state reached from a fresh CPU by a sequence of Dispatch
\* calls of recognized instructions, PC <= 0xFFF and I <= 0xFFF.
C30_AddressRange ==
    (pos \in {"new", "seq"} /\ (op = -1 \/ IsCatalogue(op))) =>
        (PC <= 4095 /\ I <= 4095)

\* The last Step of Run dispatched Fx0A.
WasWaitKey ==
    /\ pos \in {"running", "returned", "stopped"}
    /\ op # -1
    /\ Family(op) = 15
    /\ FieldKK(op) = 10

\* C22: after the Step that dispatches Fx0A, if the keypad's Get returned
\* ErrQuit then Run has returned nil; if it returned another error then
\* Step and Run have returned that error; and if it returned a key then Vx
\* holds the key.
C22_WaitKey ==
    WasWaitKey =>
        CASE keyErr = "ErrQuit" -> runErr = "nil"
          [] keyErr = "nil"     -> At(V, FieldX(op)) = key
          [] OTHER              -> (err = keyErr /\ runErr = keyErr)

\* C23: a CPU constructed with a clock speed of zero or less is rejected:
\* NewCPU has returned an error, it has not panicked, and the CPU never
\* leaves the state of its construction (nothing is loaded, nothing runs).
C23_RejectClockSpeed ==
    clockSpeed <= 0 => (err \notin {"nil", "panic"} /\ pos = "new")

\* C31: in every state reached from a fresh CPU by a sequence of Dispatch
\* calls, every cell of Pixels holds 0 or 1.
C31_PixelsBinary ==
    pos \in {"new", "seq"} =>
        \A a \in 0..(NumPixels - 1) : At(Pixels, a) \in {0, 1}

\* The value C32 gives Vx after the instruction o, from the registers v
\* held before.
PlainResult(v, o) ==
    LET a == At(v, FieldX(o))
        b == At(v, FieldY(o))
    IN  CASE Family(o) = 6 -> FieldKK(o)
          [] Family(o) = 7 -> (a + FieldKK(o)) % 256
          [] FieldN(o) = 0 -> b
          [] FieldN(o) = 1 -> Or(a, b)
          [] FieldN(o) = 2 -> And(a, b)
          [] OTHER         -> Xor(a, b)

\* The last call was Dispatch of 6xkk, 7xkk, 8xy0, 8xy1, 8xy2 or 8xy3.
WasPlain ==
    /\ op # -1
    /\ \/ Family(op) \in {6, 7}
       \/ Family(op) = 8 /\ FieldN(op) \in 0..3

\* C32: after 6xkk, 7xkk, 8xy0, 8xy1, 8xy2 or 8xy3 with x # 0xF, Vx is kk,
\* (Vx + kk) mod 256, Vy, Vx OR Vy, Vx AND Vy or Vx XOR Vy of the values held
\* before, and VF and every other register are as before.
C32_PlainRegisterOps ==
    (WasPlain /\ FieldX(op) # 15) =>
        /\ err = "nil"
        /\ At(V, FieldX(op)) = PlainResult(pre.V, op)
        /\ \A r \in 0..(NumRegs - 1) :
              r # FieldX(op) => At(V, r) = At(pre.V, r)

\* A 7xkk that overflowed (2 + 255) while VF held 1: V1 is 1 and VF is
\* still 1.
C32_Witness ==
    /\ WasFamily(7)
    /\ FieldX(op) = 1
    /\ FieldKK(op) = 255
    /\ At(pre.V, 1) = 2
    /\ At(pre.V, 15) = 1
    /\ At(V, 1) = 1
    /\ At(V, 15) = 1

\* C33: every byte value from 0 to 255 is a value the default random source
\* can return: for each byte b, Cx00 (kk = 0, which adds nothing) dispatched
\* on the CPU as it is can leave Vx = b.
C33_RandomRange ==
    \A b \in 0..255 :
        \E rnd \in randByte :
            At(OpRND(CPU, MkXKK(12, 0, 0), rnd).c.V, 0) = b

\* C34: when Dispatch has returned an UnknownOpcode error, PC, I, SP, the V
\* registers, the stack, memory and the pixels are as they were before the
\* call.
C34_UnknownOpcodeNoEffect ==
    (op # -1 /\ err = "UnknownOpcode") =>
        /\ PC = pre.PC
        /\ I = pre.I
        /\ SP = pre.SP
        /\ V = pre.V
        /\ Stack = pre.Stack
        /\ Memory = pre.Memory
        /\ Pixels = pre.Pixels

\* 9011 dispatched with V0 # V1, which 9010 would have answered by a skip:
\* UnknownOpcode, and PC is still 0x200.
C34_Witness ==
    /\ op = MkXYN(9, 0, 1, 1)
    /\ err = "UnknownOpcode"
    /\ errOpcode = op
    /\ At(pre.V, 0) # At(pre.V, 1)
    /\ PC = ProgramStart

\* The result C35 gives Vx after the flag-setting instruction with low nibble
\* n, from the values a of Vx and b of Vy held before.
FlagOpResult(n, a, b) ==
    CASE n = 4  -> (a + b) % 256
      [] n = 5  -> (a - b + 256) % 256
      [] n = 6  -> a \div 2
      [] n = 7  -> (b - a + 256) % 256
      [] OTHER  -> (2 * a) % 256

\* C35: after 8xy4, 8xy5, 8xy6, 8xy7 or 8xyE with x # 0xF and any y,
\* 0xF included, Vx holds the result computed from the values Vx and Vy held
\* before the instruction.
C35_ResultFromOldValues ==
    (WasFamily(8) /\ FieldN(op) \in {4, 5, 6, 7, 14} /\ FieldX(op) # 15) =>
        /\ err = "nil"
        /\ At(V, FieldX(op)) =
              FlagOpResult(FieldN(op), At(pre.V, FieldX(op)), At(pre.V, FieldY(op)))

\* C36: a WriteSprite call with an origin in 0..255 x 0..255 and a sprite of
\* 1 to 15 rows indexes Pixels only inside 0..2047: it does not panic on an
\* index out of range, and no cell outside the buffer exists afterwards.
C36_SpriteInBounds ==
    (WasDraw /\ Len(sprite) \in 1..15) =>
        /\ err # "panic"
        /\ DOMAIN Pixels \subseteq 0..(NumPixels - 1)

\* C37: in every state reached from a fresh CPU by a sequence of Dispatch
\* calls, the stack pointer has not wrapped below 0 (it is at most the
\* number of slots), and a CALL or RET has not indexed Stack outside 0..15
\* (it has not panicked).  Only CALL and RET touch SP and Stack, so the
\* other instructions of a sequence change nothing of this.
C37_StackInBounds ==
    pos \in {"new", "seq"} =>
        /\ SP <= StackSize
        /\ (op = 238 \/ (op # -1 /\ Family(op) = 2)) => err # "panic"

\* C38: a Dispatch of any value other than 00E0 and Dxyn leaves every cell
\* of Pixels as it was, and a Dispatch of any value other than Fx33 and Fx55
\* leaves every byte of Memory as it was.
C38_PixelsMemoryFrame ==
    (pos = "seq" /\ op # -1) =>
        /\ (op # 224 /\ Family(op) # 13) => Pixels = pre.Pixels
        /\ ~(Family(op) = 15 /\ FieldKK(op) \in {51, 85}) => Memory = pre.Memory

\* Fx65 dispatched after a Dxyn had drawn: the drawn cell and the font in
\* memory are as before, although V0 differs from Memory[I].
C38_Witness ==
    /\ pos = "seq"
    /\ op = MkXKK(15, 1, 101)
    /\ err = "nil"
    /\ pre.Pixels # Zeroes
    /\ Pixels = pre.Pixels
    /\ At(pre.V, 0) # At(pre.Memory, pre.I)
    /\ Memory = pre.Memory

====
